---- MODULE Spec2Model ----
(***************************************************************************)
(* Model of the fingerprint pipeline of ml/train_isolation_forest.py and   *)
(* ml/compute_stats.py: the JSONL loader and its pad/truncate vectorizer,  *)
(* the training run (size floor, fit, threshold calibration, export) and   *)
(* the statistics run (mean/std, read-modify-write of the metadata file).  *)
(*                                                                         *)
(* Numbers are exact: a real is a pair [num, den] with den > 0.  JSON      *)
(* values are tagged records [kind, val]; a JSON file is a sequence of     *)
(* tokens << "{", <<key, value>>, ..., "}" >>; a Python dict is a sequence *)
(* of <<key, value>> pairs with unique keys, in insertion order.           *)
(***************************************************************************)
EXTENDS Integers, Sequences, FiniteSets, TLC

\* ------------------------------------------------------------ constants
D == 96
MIN_SAMPLES == 100
DEFAULT_MAX_SAMPLES == 50000
STATS_MAX_LINES == 30000
N_ESTIMATORS == 100
CONTAMINATION_PCT == 5
SUBVECTOR_DIM == 16

\* ------------------------------------------------------------ bounds
MaxLines == 2          \* longest enumerated small input file
MaxK == 2              \* largest small --max-samples value tried
NumSeeds == 1          \* members of the family of fitted scoring functions
MaxClock == 1          \* distinct values datetime.utcnow() may return
ScoreMod == 101         \* distinct raw score magnitudes
ValMod == 5            \* distinct numeric entries of a valid record
BigExtra == 1          \* large files have MIN_SAMPLES-1 .. MIN_SAMPLES+BigExtra lines
MaxFlush == 1          \* chunks of a dump that may reach the disk before the close

\* ------------------------------------------------------------ helpers
\* Sums and concatenations split their range in halves, so that the depth of
\* the evaluation grows with the logarithm of the length.
RECURSIVE SumRange(_, _, _)
SumRange(s, lo, hi) ==
    IF lo > hi THEN 0
    ELSE IF lo = hi THEN s[lo]
    ELSE LET mid == (lo + hi) \div 2 IN SumRange(s, lo, mid) + SumRange(s, mid + 1, hi)

SeqSum(s) == SumRange(s, 1, Len(s))

RECURSIVE ConcatRange(_, _, _)
ConcatRange(rows, lo, hi) ==
    IF lo > hi THEN <<>>
    ELSE IF lo = hi THEN rows[lo]
    ELSE LET mid == (lo + hi) \div 2 IN ConcatRange(rows, lo, mid) \o ConcatRange(rows, mid + 1, hi)

Concat(rows) == ConcatRange(rows, 1, Len(rows))

Min2(a, b) == IF a <= b THEN a ELSE b

\* ------------------------------------------------------------ input lines
\* A line of the JSONL input, as json.loads sees it:
\*   json  "invalid" (not JSON), "array" (JSON, but not an object), "object"
\*   has_vectors  the object has a `vectors` member
\*   ndim  nesting depth of the `vectors` value (0 = a bare scalar)
\*   dtype "num" or "str": what the leaves are
\*   val   the `vectors` value itself
Matrix(seed, rows, cols) ==
    [r \in 1..rows |-> [c \in 1..cols |->
        ((seed * (cols * (r - 1) + c) + (seed \div ValMod)) % ValMod) - 1]]

LineKinds ==
    {"invalid", "array", "no_field", "empty_list", "short", "long", "ragged",
     "strings", "scalar", "empty_row", "full"}

\* The content of an input line [kind, seed]; seed varies the numeric entries.
Line(l) ==
    CASE l.kind = "invalid"    -> [json |-> "invalid", has_vectors |-> FALSE, ndim |-> 1, dtype |-> "num", val |-> <<>>]
      [] l.kind = "array"      -> [json |-> "array", has_vectors |-> FALSE, ndim |-> 1, dtype |-> "num", val |-> <<>>]
      [] l.kind = "no_field"   -> [json |-> "object", has_vectors |-> FALSE, ndim |-> 1, dtype |-> "num", val |-> <<>>]
      [] l.kind = "empty_list" -> [json |-> "object", has_vectors |-> TRUE, ndim |-> 1, dtype |-> "num", val |-> <<>>]
      [] l.kind = "short"      -> [json |-> "object", has_vectors |-> TRUE, ndim |-> 2, dtype |-> "num",
                                   val |-> Matrix(l.seed, 3, SUBVECTOR_DIM)]
      [] l.kind = "long"       -> [json |-> "object", has_vectors |-> TRUE, ndim |-> 2, dtype |-> "num",
                                   val |-> Matrix(l.seed, 7, SUBVECTOR_DIM)]
      [] l.kind = "ragged"     -> [json |-> "object", has_vectors |-> TRUE, ndim |-> 2, dtype |-> "num",
                                   val |-> << <<1, 2>>, <<3>> >>]
      [] l.kind = "strings"    -> [json |-> "object", has_vectors |-> TRUE, ndim |-> 2, dtype |-> "str",
                                   val |-> << <<"a", "b">> >>]
      [] l.kind = "scalar"     -> [json |-> "object", has_vectors |-> TRUE, ndim |-> 0, dtype |-> "num", val |-> 5]
      [] l.kind = "empty_row"  -> [json |-> "object", has_vectors |-> TRUE, ndim |-> 2, dtype |-> "num",
                                   val |-> << <<>> >>]
      [] OTHER                 -> [json |-> "object", has_vectors |-> TRUE, ndim |-> 2, dtype |-> "num",
                                   val |-> Matrix(l.seed, 6, SUBVECTOR_DIM)]

\* ------------------------------------------------------------ vectorizer
\* `if block_vectors:` -- Python truthiness of the value record.get returns
\* ([] when the member is absent).
Truthy(ln) ==
    /\ ln.has_vectors
    /\ IF ln.ndim = 0 THEN ln.val # 0 ELSE Len(ln.val) > 0

\* np.array(block_vectors) raises ValueError on rows of different lengths
\* (inhomogeneous shape; numpy 1.24 and later).
IsRagged(ln) ==
    /\ ln.ndim = 2
    /\ \E a, b \in 1..Len(ln.val) : Len(ln.val[a]) # Len(ln.val[b])

\* np.array(block_vectors).flatten(): row-major, order kept.
Flatten(ln) ==
    CASE ln.ndim = 0 -> <<ln.val>>
      [] ln.ndim = 1 -> ln.val
      [] OTHER       -> Concat(ln.val)

\* np.pad(..., mode='constant') stores the constant 0 in the array's dtype.
PadValue(dtype) == IF dtype = "str" THEN "0" ELSE 0

\* Mutant of PadOrTruncate: truncation keeps the last D values.
PadOrTruncate_KeepTail(flat, dtype) ==
    IF Len(flat) < D
    THEN flat \o [j \in 1..(D - Len(flat)) |-> PadValue(dtype)]
    ELSE IF Len(flat) > D THEN SubSeq(flat, Len(flat) - D + 1, Len(flat)) ELSE flat

PadOrTruncate(flat, dtype) ==
    IF Len(flat) < D
    THEN flat \o [j \in 1..(D - Len(flat)) |-> PadValue(dtype)]
    ELSE IF Len(flat) > D THEN SubSeq(flat, 1, D) ELSE flat

\* The body of the try block for one line: what it appends, or what it raises.
ProcessLine(ln) ==
    IF ln.json = "invalid" THEN [outcome |-> "raise", exc |-> "JSONDecodeError", vec |-> <<>>, dtype |-> "num"]
    ELSE IF ln.json # "object" THEN [outcome |-> "raise", exc |-> "AttributeError", vec |-> <<>>, dtype |-> "num"]
    ELSE IF ~Truthy(ln) THEN [outcome |-> "skip", exc |-> "none", vec |-> <<>>, dtype |-> "num"]
    ELSE IF IsRagged(ln) THEN [outcome |-> "raise", exc |-> "ValueError", vec |-> <<>>, dtype |-> "num"]
    ELSE [outcome |-> "append", exc |-> "none",
          vec |-> PadOrTruncate(Flatten(ln), ln.dtype), dtype |-> ln.dtype]

\* ------------------------------------------------------------ loaders
\* The cap test at the top of the loop body; i is the 0-based enumerate index.
\* Mutant of CapReached: off by one.
CapReached_OffByOne(i, max_samples) == i > max_samples

CapReached(i, max_samples) == i >= max_samples

\* One pass of the loop body of load_training_data / compute_stats.main for
\* the 1-based line n, from loop state st = [running, raised, vectors, examined].
\* caught: the exception names the except clause absorbs ("*" = bare except).
\* Each appended array carries the 1-based number of the line it came from.
LoopBody(st, lines, max_samples, caught, n) ==
    IF ~st.running THEN st
    ELSE IF CapReached(n - 1, max_samples) THEN [st EXCEPT !.running = FALSE]
    ELSE LET r == ProcessLine(Line(lines[n])) IN
         CASE r.outcome = "append" ->
                [st EXCEPT !.examined = n,
                           !.vectors = Append(@, [dtype |-> r.dtype, data |-> r.vec, line |-> n])]
           [] r.outcome = "skip" -> [st EXCEPT !.examined = n]
           [] OTHER ->
                IF "*" \in caught \/ r.exc \in caught
                THEN [st EXCEPT !.examined = n]
                ELSE [st EXCEPT !.examined = n, !.running = FALSE, !.raised = r.exc]

\* The loop over lines lo..hi, in order.
RECURSIVE LoopRange(_, _, _, _, _, _)
LoopRange(st, lines, max_samples, caught, lo, hi) ==
    IF lo > hi THEN st
    ELSE IF lo = hi THEN LoopBody(st, lines, max_samples, caught, lo)
    ELSE LET mid == (lo + hi) \div 2
             left == LoopRange(st, lines, max_samples, caught, lo, mid)
         IN  IF left.running
             THEN LoopRange(left, lines, max_samples, caught, mid + 1, hi)
             ELSE left

LoadLoop(lines, max_samples, caught) ==
    LoopRange([running |-> TRUE, raised |-> "none", vectors |-> <<>>, examined |-> 0],
              lines, max_samples, caught, 1, Len(lines))

load_training_data(lines, max_samples) ==
    LoadLoop(lines, max_samples, {"JSONDecodeError", "KeyError"})

stats_load(lines) == LoadLoop(lines, STATS_MAX_LINES, {"*"})

\* ------------------------------------------------------------ exact reals
\* [num, den, root]: num/den when root = 1, sqrt(num/den) when root = 2.
Real(num, den) == [num |-> num, den |-> den, root |-> 1]
Sqrt(num, den) == [num |-> num, den |-> den, root |-> 2]

\* ------------------------------------------------------------ normalisation statistics
Column(X, j) == [i \in 1..Len(X) |-> X[i].data[j]]

\* numpy's std: sqrt(mean(abs(x - x.mean()) ** 2)), divisor n.
StdOf(col) ==
    LET n == Len(col)
        S == SeqSum(col)
    IN  Sqrt(SeqSum([i \in 1..n |-> (n * col[i] - S) * (n * col[i] - S)]), n * n * n)

MeanOf(col) == Real(SeqSum(col), Len(col))

\* X = np.array(vectors); X.mean(axis=0).tolist(), X.std(axis=0).tolist().
\* An empty X has shape (0,): both reductions return the float nan.  A string
\* array cannot be reduced: TypeError.
compute_norm_stats(X) ==
    IF \E i \in 1..Len(X) : X[i].dtype = "str"
    THEN [raised |-> "TypeError: mean", mean |-> [kind |-> "nan", val |-> <<>>], std |-> [kind |-> "nan", val |-> <<>>]]
    ELSE IF Len(X) = 0
    THEN [raised |-> "none", mean |-> [kind |-> "nan", val |-> <<>>], std |-> [kind |-> "nan", val |-> <<>>]]
    ELSE [raised |-> "none",
          mean |-> [kind |-> "list", val |-> [j \in 1..D |-> MeanOf(Column(X, j))]],
          std  |-> [kind |-> "list", val |-> [j \in 1..D |-> StdOf(Column(X, j))]]]

\* ------------------------------------------------------------ scoring capability
\* IsolationForest.fit / score_samples are an external capability.  A fitted
\* model is one member of a family of scoring functions of the feature vector;
\* score_samples returns a negative number per row (more negative = more
\* anomalous).
Projection(x) == SeqSum([j \in 1..Len(x) |-> j * x[j]])

ScoreSamples(model, X) ==
    [i \in 1..Len(X) |-> 0 - (1 + ((model.seed * Projection(X[i].data) + model.seed) % ScoreMod))]

\* ------------------------------------------------------------ threshold statistics
\* The k-th smallest (1-based) element of s.
KthSmallest(s, k) ==
    CHOOSE v \in {s[i] : i \in 1..Len(s)} :
        /\ Cardinality({i \in 1..Len(s) : s[i] < v}) < k
        /\ Cardinality({i \in 1..Len(s) : s[i] <= v}) >= k

\* Mutant of Percentile: indexes the scores as given, without ordering them.
Percentile_Unsorted(scores, q) ==
    LET n   == Len(scores)
        pos == q * (n - 1)
        lo  == pos \div 100
        r   == pos % 100
        hi  == Min2(lo + 1, n - 1)
    IN  Real(scores[lo + 1] * (100 - r) + scores[hi + 1] * r, 100)

\* np.percentile(scores, q), method 'linear': virtual index q/100 * (n-1) into
\* the sorted scores, interpolated between the two neighbours.
Percentile(scores, q) ==
    LET n   == Len(scores)
        pos == q * (n - 1)
        lo  == pos \div 100
        r   == pos % 100
        hi  == Min2(lo + 1, n - 1)
        a   == KthSmallest(scores, lo + 1)
        b   == KthSmallest(scores, hi + 1)
    IN  Real(a * (100 - r) + b * r, 100)

Negate(raw) == [i \in 1..Len(raw) |-> 0 - raw[i]]

compute_threshold_stats(model, X) ==
    LET scores == Negate(ScoreSamples(model, X))
        n == Len(scores)
    IN  [mean |-> MeanOf(scores),
         std  |-> StdOf(scores),
         min  |-> Real(KthSmallest(scores, 1), 1),
         max  |-> Real(KthSmallest(scores, n), 1),
         p50  |-> Percentile(scores, 50),
         p90  |-> Percentile(scores, 90),
         p95  |-> Percentile(scores, 95),
         p99  |-> Percentile(scores, 99)]

\* ------------------------------------------------------------ JSON and dicts
\* A JSON value.
J(kind, val) == [kind |-> kind, val |-> val]

\* A token of a JSON text holding one object.
Tok(t, key, value) == [t |-> t, key |-> key, value |-> value]
OpenBrace == Tok("{", "", J("none", 0))
CloseBrace == Tok("}", "", J("none", 0))
ListText == <<Tok("[]", "", J("none", 0))>>      \* the JSON text `[]`

DictHas(d, k) == \E i \in 1..Len(d) : d[i][1] = k
DictGet(d, k) == d[CHOOSE i \in 1..Len(d) : d[i][1] = k][2]
\* d[k] = v: replaces in place, or appends.
DictSet(d, k, v) ==
    IF DictHas(d, k)
    THEN [i \in 1..Len(d) |-> IF d[i][1] = k THEN <<k, v>> ELSE d[i]]
    ELSE Append(d, <<k, v>>)

RECURSIVE DictFromMembers(_, _)
DictFromMembers(toks, d) ==
    IF toks = <<>> THEN d
    ELSE DictFromMembers(Tail(toks), DictSet(d, Head(toks).key, Head(toks).value))

\* json.load: the text must be one complete value; an object's repeated
\* members keep the last value.
json_load(text) ==
    IF text = ListText THEN [raised |-> "none", type |-> "list", dict |-> <<>>]
    ELSE IF /\ Len(text) >= 2
            /\ text[1].t = "{"
            /\ text[Len(text)].t = "}"
            /\ \A i \in 2..(Len(text) - 1) : text[i].t = "member"
    THEN [raised |-> "none", type |-> "dict",
          dict |-> DictFromMembers(SubSeq(text, 2, Len(text) - 1), <<>>)]
    ELSE [raised |-> "JSONDecodeError", type |-> "none", dict |-> <<>>]

\* json.dump(metadata, f, indent=2): the chunks handed to f.write, in order.
json_dump(d) ==
    <<OpenBrace>> \o [i \in 1..Len(d) |-> Tok("member", d[i][1], d[i][2])] \o <<CloseBrace>>

\* ------------------------------------------------------------ files
NoFile == [exists |-> FALSE, content |-> <<>>]
File(content) == [exists |-> TRUE, content |-> content]

\* open(path, 'w'): creates the file or truncates it to zero length.
OpenForWrite(f) == File(<<>>)

\* ------------------------------------------------------------ state
VARIABLES
    input,        \* the lines of artifacts/training/foldedVectors.jsonl
    meta_file,    \* ml/models/isolation_forest.json on disk
    model_file,   \* ml/models/isolation_forest.joblib on disk
    pc,           \* position of the running script; "idle": no script runs
    mode,         \* "train" or "stats": the script of the current / last run
    max_samples,  \* --max-samples of the current / last training run
    vectors,      \* the loader's list of arrays
    examined,     \* number of lines the loader handed to json.loads
    model,        \* the fitted model, [fitted, seed]
    stats,        \* compute_threshold_stats' result
    norm,         \* mean_vector / std_vector of the statistics run
    metadata,     \* the metadata dict in memory
    wbuf,         \* chunks written to the open file object, not yet on disk
    exit,         \* how the run ended: "none" (not yet), "ok", "return 1" or the exception
    pre_meta,     \* history: meta_file when the current / last run started
    pre_model,    \* history: model_file when the current / last run started
    merged        \* history: a statistics merge was persisted since the last export

vars == <<input, meta_file, model_file, pc, mode, max_samples, vectors, examined,
          model, stats, norm, metadata, wbuf, exit, pre_meta, pre_model, merged>>

NoModel == [fitted |-> FALSE, seed |-> 0]
NoStats == [mean |-> Real(0, 1), std |-> Sqrt(0, 1), min |-> Real(0, 1), max |-> Real(0, 1),
            p50 |-> Real(0, 1), p90 |-> Real(0, 1), p95 |-> Real(0, 1), p99 |-> Real(0, 1)]
NoNorm == [raised |-> "none", mean |-> [kind |-> "nan", val |-> <<>>], std |-> [kind |-> "nan", val |-> <<>>]]

\* ------------------------------------------------------------ inputs
SmallLines == {[kind |-> k, seed |-> 1] : k \in LineKinds}

RECURSIVE SeqsUpTo(_, _)
SeqsUpTo(S, n) ==
    IF n = 0 THEN {<<>>}
    ELSE LET shorter == SeqsUpTo(S, n - 1)
         IN  shorter \cup {Append(q, x) : q \in {t \in shorter : Len(t) = n - 1}, x \in S}

SmallFiles == SeqsUpTo(SmallLines, MaxLines)

\* A large file: records of 3, 6 and 7 sub-vectors in turn; `odd` replaces the
\* second line ("none": no replacement).
BigFile(n, odd) ==
    [i \in 1..n |->
        IF i = 2 /\ odd # "none" THEN [kind |-> odd, seed |-> i]
        ELSE [kind |-> CASE i % 3 = 0 -> "short" [] i % 3 = 1 -> "full" [] OTHER -> "long",
              seed |-> i]]

BigFiles ==
    {BigFile(n, "none") : n \in (MIN_SAMPLES - 1)..(MIN_SAMPLES + BigExtra)}
        \cup {BigFile(MIN_SAMPLES + 1, odd) : odd \in {"invalid", "strings"}}

\* --max-samples values tried: argparse's type=int accepts any integer.
MaxSamplesChoices ==
    (-1..MaxK) \cup {MIN_SAMPLES - 1, MIN_SAMPLES, DEFAULT_MAX_SAMPLES}

\* A metadata file left by some earlier tool: a repeated member and a member
\* this code never writes.
LegacyMetaText ==
    <<OpenBrace,
      Tok("member", "model_type", J("str", "Old")),
      Tok("member", "notes", J("str", "keep")),
      Tok("member", "model_type", J("str", "IsolationForest")),
      Tok("member", "training_samples", J("int", 7)),
      CloseBrace>>

Init ==
    /\ \/ input \in SmallFiles /\ meta_file = NoFile
       \/ input \in {f \in SmallFiles : Len(f) < MaxLines} /\ meta_file = File(LegacyMetaText)
       \/ input \in {f \in SmallFiles : Len(f) <= 1} /\ meta_file = File(ListText)
       \/ input \in BigFiles /\ meta_file = NoFile
    /\ model_file = NoFile
    /\ pc = "idle"
    /\ mode = "none"
    /\ max_samples = DEFAULT_MAX_SAMPLES
    /\ vectors = <<>>
    /\ examined = 0
    /\ model = NoModel
    /\ stats = NoStats
    /\ norm = NoNorm
    /\ metadata = <<>>
    /\ wbuf = <<>>
    /\ exit = "none"
    /\ pre_meta = meta_file
    /\ pre_model = model_file
    /\ merged = FALSE

\* ------------------------------------------------------------ writing a file
\* The three steps of `with open(path, 'w') as f: json.dump(d, f, indent=2)`.
\* The file object buffers: after the dump any prefix of the chunks may have
\* reached the disk; closing writes the rest.
DumpFlushed(f, d, p) == File(f.content \o SubSeq(json_dump(d), 1, p))
DumpBuffered(d, p) == SubSeq(json_dump(d), p + 1, Len(json_dump(d)))
CloseFile(f, buf) == File(f.content \o buf)

\* ------------------------------------------------------------ training run
\* Mutant of TooFewSamples: the floor is one too low.
TooFewSamples_OffByOne(n) == n < MIN_SAMPLES - 1

\* The floor test of main.
TooFewSamples(n) == n < MIN_SAMPLES

\* The metadata main builds.
TrainingMetadata(trained_at, n, st) ==
    << <<"model_type", J("str", "IsolationForest")>>,
       <<"trained_at", J("time", trained_at)>>,
       <<"input_dims", J("int", D)>>,
       <<"n_estimators", J("int", N_ESTIMATORS)>>,
       <<"contamination", J("real", Real(CONTAMINATION_PCT, 100))>>,
       <<"training_samples", J("int", n)>>,
       <<"score_stats", J("obj", st)>>,
       <<"threshold_suggestion", J("real", st.p95)>> >>

\* main: args parsed, load_training_data(args.input, args.max_samples).  An
\* exception the loader does not catch ends the process with a traceback.
TrainLoad(k) ==
    /\ pc = "idle"
    /\ LET r == load_training_data(input, k) IN
        /\ vectors' = r.vectors
        /\ examined' = r.examined
        /\ IF r.raised = "none"
           THEN pc' = "t_check" /\ exit' = "none"
           ELSE pc' = "done" /\ exit' = r.raised
    /\ mode' = "train"
    /\ max_samples' = k
    /\ model' = NoModel
    /\ stats' = NoStats
    /\ norm' = NoNorm
    /\ metadata' = <<>>
    /\ wbuf' = <<>>
    /\ pre_meta' = meta_file
    /\ pre_model' = model_file
    /\ UNCHANGED <<input, meta_file, model_file, merged>>

\* main: `if len(X) < 100: ... return 1`.
TrainCheck ==
    /\ pc = "t_check"
    /\ IF TooFewSamples(Len(vectors))
       THEN pc' = "done" /\ exit' = "return 1"
       ELSE pc' = "t_fit" /\ exit' = exit
    /\ UNCHANGED <<input, meta_file, model_file, mode, max_samples, vectors, examined,
                   model, stats, norm, metadata, wbuf, pre_meta, pre_model, merged>>

\* train_model: model.fit(X).  A string array is rejected with ValueError.
TrainFit(seed) ==
    /\ pc = "t_fit"
    /\ IF \E i \in 1..Len(vectors) : vectors[i].dtype = "str"
       THEN pc' = "done" /\ exit' = "ValueError: fit" /\ model' = model
       ELSE pc' = "t_calibrate" /\ exit' = exit /\ model' = [fitted |-> TRUE, seed |-> seed]
    /\ UNCHANGED <<input, meta_file, model_file, mode, max_samples, vectors, examined,
                   stats, norm, metadata, wbuf, pre_meta, pre_model, merged>>

\* main: stats = compute_threshold_stats(model, X), then the metadata dict;
\* datetime.utcnow() is whatever the clock says.
TrainCalibrate(now) ==
    /\ pc = "t_calibrate"
    /\ stats' = compute_threshold_stats(model, vectors)
    /\ metadata' = TrainingMetadata(now, Len(vectors), stats')
    /\ pc' = "t_open_model"
    /\ UNCHANGED <<input, meta_file, model_file, mode, max_samples, vectors, examined,
                   model, norm, wbuf, exit, pre_meta, pre_model, merged>>

\* export_model: joblib.dump(model, model_path) opens the artifact for
\* writing, which creates or truncates it.
ExportModelOpen ==
    /\ pc = "t_open_model"
    /\ model_file' = OpenForWrite(model_file)
    /\ pc' = "t_dump_model"
    /\ UNCHANGED <<input, meta_file, mode, max_samples, vectors, examined, model, stats,
                   norm, metadata, wbuf, exit, pre_meta, pre_model, merged>>

\* export_model: joblib.dump(model, model_path) pickles the model into the
\* artifact and closes it.
ExportModelDump ==
    /\ pc = "t_dump_model"
    /\ model_file' = File(<<model>>)
    /\ pc' = "t_open"
    /\ UNCHANGED <<input, meta_file, mode, max_samples, vectors, examined, model, stats,
                   norm, metadata, wbuf, exit, pre_meta, pre_model, merged>>

\* export_model: open(meta_path, 'w').
ExportMetaOpen ==
    /\ pc = "t_open"
    /\ meta_file' = OpenForWrite(meta_file)
    /\ wbuf' = <<>>
    /\ pc' = "t_dump"
    /\ UNCHANGED <<input, model_file, mode, max_samples, vectors, examined, model, stats,
                   norm, metadata, exit, pre_meta, pre_model, merged>>

\* export_model: json.dump(metadata, f, indent=2).
ExportMetaDump(p) ==
    /\ pc = "t_dump"
    /\ meta_file' = DumpFlushed(meta_file, metadata, p)
    /\ wbuf' = DumpBuffered(metadata, p)
    /\ pc' = "t_close"
    /\ UNCHANGED <<input, model_file, mode, max_samples, vectors, examined, model, stats,
                   norm, metadata, exit, pre_meta, pre_model, merged>>

\* export_model: the with block closes the file; main returns 0.
ExportMetaClose ==
    /\ pc = "t_close"
    /\ meta_file' = CloseFile(meta_file, wbuf)
    /\ wbuf' = <<>>
    /\ pc' = "done"
    /\ exit' = "ok"
    /\ merged' = FALSE
    /\ UNCHANGED <<input, model_file, mode, max_samples, vectors, examined, model, stats,
                   norm, metadata, pre_meta, pre_model>>

\* ------------------------------------------------------------ statistics run
\* Mutant of MergeStats: builds a new dict holding the two members only.
MergeStats_Rebuild(d, mean, std) ==
    << <<"mean_vector", mean>>, <<"std_vector", std>> >>

\* metadata['mean_vector'] = ...; metadata['std_vector'] = ...
MergeStats(d, mean, std) == DictSet(DictSet(d, "mean_vector", mean), "std_vector", std)

\* Mutant of ReadAndMerge: a missing file reads as an empty dict.
ReadAndMerge_DefaultEmpty(f, mean, std) ==
    IF ~f.exists THEN [raised |-> "none", dict |-> MergeStats(<<>>, mean, std)]
    ELSE LET r == json_load(f.content) IN
         IF r.raised # "none" THEN [raised |-> r.raised, dict |-> <<>>]
         ELSE IF r.type # "dict" THEN [raised |-> "TypeError: setitem", dict |-> <<>>]
         ELSE [raised |-> "none", dict |-> MergeStats(r.dict, mean, std)]

\* `with open(metadata_path, 'r') as f: metadata = json.load(f)` and the two
\* assignments: the exception raised, or the updated dict.
ReadAndMerge(f, mean, std) ==
    IF ~f.exists THEN [raised |-> "FileNotFoundError", dict |-> <<>>]
    ELSE LET r == json_load(f.content) IN
         IF r.raised # "none" THEN [raised |-> r.raised, dict |-> <<>>]
         ELSE IF r.type # "dict" THEN [raised |-> "TypeError: setitem", dict |-> <<>>]
         ELSE [raised |-> "none", dict |-> MergeStats(r.dict, mean, std)]

\* compute_stats.main: the loader loop (bare except, cap 30000).
StatsLoad ==
    /\ pc = "idle"
    /\ LET r == stats_load(input) IN
        /\ vectors' = r.vectors
        /\ examined' = r.examined
    /\ pc' = "s_compute"
    /\ exit' = "none"
    /\ mode' = "stats"
    /\ model' = NoModel
    /\ stats' = NoStats
    /\ norm' = NoNorm
    /\ metadata' = <<>>
    /\ wbuf' = <<>>
    /\ pre_meta' = meta_file
    /\ pre_model' = model_file
    /\ UNCHANGED <<input, meta_file, model_file, max_samples, merged>>

\* X = np.array(vectors); mean_vector, std_vector.
StatsCompute ==
    /\ pc = "s_compute"
    /\ norm' = compute_norm_stats(vectors)
    /\ IF norm'.raised = "none"
       THEN pc' = "s_read" /\ exit' = exit
       ELSE pc' = "done" /\ exit' = norm'.raised
    /\ UNCHANGED <<input, meta_file, model_file, mode, max_samples, vectors, examined,
                   model, stats, metadata, wbuf, pre_meta, pre_model, merged>>

\* Read the metadata file and set the two members.
StatsReadMerge ==
    /\ pc = "s_read"
    /\ LET r == ReadAndMerge(meta_file, norm.mean, norm.std) IN
        /\ metadata' = r.dict
        /\ IF r.raised = "none"
           THEN pc' = "s_open" /\ exit' = exit
           ELSE pc' = "done" /\ exit' = r.raised
    /\ UNCHANGED <<input, meta_file, model_file, mode, max_samples, vectors, examined,
                   model, stats, norm, wbuf, pre_meta, pre_model, merged>>

\* open(metadata_path, 'w').
StatsMetaOpen ==
    /\ pc = "s_open"
    /\ meta_file' = OpenForWrite(meta_file)
    /\ wbuf' = <<>>
    /\ pc' = "s_dump"
    /\ UNCHANGED <<input, model_file, mode, max_samples, vectors, examined, model, stats,
                   norm, metadata, exit, pre_meta, pre_model, merged>>

\* json.dump(metadata, f, indent=2).
StatsMetaDump(p) ==
    /\ pc = "s_dump"
    /\ meta_file' = DumpFlushed(meta_file, metadata, p)
    /\ wbuf' = DumpBuffered(metadata, p)
    /\ pc' = "s_close"
    /\ UNCHANGED <<input, model_file, mode, max_samples, vectors, examined, model, stats,
                   norm, metadata, exit, pre_meta, pre_model, merged>>

\* The with block closes the file.
StatsMetaClose ==
    /\ pc = "s_close"
    /\ meta_file' = CloseFile(meta_file, wbuf)
    /\ wbuf' = <<>>
    /\ pc' = "s_print"
    /\ merged' = TRUE
    /\ UNCHANGED <<input, model_file, mode, max_samples, vectors, examined, model, stats,
                   norm, metadata, exit, pre_meta, pre_model>>

\* The closing prints: min(mean_vector) raises TypeError on a float.
StatsPrint ==
    /\ pc = "s_print"
    /\ pc' = "done"
    /\ exit' = IF norm.mean.kind = "list" THEN "ok" ELSE "TypeError: min"
    /\ UNCHANGED <<input, meta_file, model_file, mode, max_samples, vectors, examined,
                   model, stats, norm, metadata, wbuf, pre_meta, pre_model, merged>>

\* ------------------------------------------------------------ process end
\* The running script is killed (SIGKILL, power loss) at any point of a run:
\* what is in the process, the write buffer included, is gone; what is on
\* disk stays, and either script can be started again on it.
Crash ==
    /\ pc \notin {"idle", "done"}
    /\ pc' = "idle"
    /\ mode' = "none"
    /\ max_samples' = DEFAULT_MAX_SAMPLES
    /\ vectors' = <<>>
    /\ examined' = 0
    /\ model' = NoModel
    /\ stats' = NoStats
    /\ norm' = NoNorm
    /\ metadata' = <<>>
    /\ wbuf' = <<>>
    /\ exit' = "none"
    /\ pre_meta' = meta_file
    /\ pre_model' = model_file
    /\ UNCHANGED <<input, meta_file, model_file, merged>>

\* The script's process ends (exit(main()), the end of the script or a
\* traceback): its memory is gone, the files stay.
Exit ==
    /\ pc = "done"
    /\ pc' = "idle"
    /\ mode' = "none"
    /\ max_samples' = DEFAULT_MAX_SAMPLES
    /\ vectors' = <<>>
    /\ examined' = 0
    /\ model' = NoModel
    /\ stats' = NoStats
    /\ norm' = NoNorm
    /\ metadata' = <<>>
    /\ wbuf' = <<>>
    /\ exit' = "none"
    /\ pre_meta' = meta_file
    /\ pre_model' = model_file
    /\ UNCHANGED <<input, meta_file, model_file, merged>>

\* How many chunks of the dump the file object may have flushed to disk when
\* json.dump returns (the rest sits in its buffer until the close).
FlushPoints(d) == 0..Min2(MaxFlush, Len(json_dump(d)))

Next ==
    \/ \E k \in MaxSamplesChoices : TrainLoad(k)
    \/ TrainCheck
    \/ \E seed \in 1..NumSeeds : TrainFit(seed)
    \/ \E now \in 1..MaxClock : TrainCalibrate(now)
    \/ ExportModelOpen
    \/ ExportModelDump
    \/ ExportMetaOpen
    \/ \E p \in FlushPoints(metadata) : ExportMetaDump(p)
    \/ ExportMetaClose
    \/ StatsLoad
    \/ StatsCompute
    \/ StatsReadMerge
    \/ StatsMetaOpen
    \/ \E p \in FlushPoints(metadata) : StatsMetaDump(p)
    \/ StatsMetaClose
    \/ StatsPrint
    \/ Crash
    \/ Exit

Spec == Init /\ [][Next]_vars

\* ============================================================ claims
Max2(a, b) == IF a >= b THEN a ELSE b
\* Order of exact reals [num, den, root] (den > 0); Leq is for root = 1.
Leq(a, b) == a.num * b.den <= b.num * a.den
NonNegative(a) == a.num >= 0

\* What a record's flattened `vectors` content is, stated position by position
\* (row-major), independently of Flatten.
FlatLength(ln) ==
    CASE ln.ndim = 0 -> 1
      [] ln.ndim = 1 -> Len(ln.val)
      [] OTHER       -> IF Len(ln.val) = 0 THEN 0 ELSE Len(ln.val) * Len(ln.val[1])

FlatAt(ln, j) ==
    CASE ln.ndim = 0 -> ln.val
      [] ln.ndim = 1 -> ln.val[j]
      [] OTHER       -> LET c == Len(ln.val[1])
                        IN  ln.val[((j - 1) \div c) + 1][((j - 1) % c) + 1]

\* The zero of an array's element type (a string array holds "0").
IsZero(x, dtype) == IF dtype = "str" THEN x = "0" ELSE x = 0

SourceLine(v) == Line(input[v.line])

\* The loader of the current run has just ended (returned or raised); nothing
\* assigns `vectors` afterwards.
LoaderReturned ==
    \/ pc \in {"t_check", "s_compute"}
    \/ pc = "done" /\ exit \in {"AttributeError", "ValueError"}

\* C1: every vector either loader appends has length exactly 96; with L the
\* length of the record's flattened content, its first min(L, 96) entries are the
\* flattened values in order and, when L < 96, the remaining 96 - L are zeros.
C1_VectorIsPaddedOrTruncated ==
    LoaderReturned => \A i \in 1..Len(vectors) :
        LET v  == vectors[i]
            ln == SourceLine(v)
            L  == FlatLength(ln)
        IN  /\ Len(v.data) = D
            /\ \A j \in 1..D :
                IF j <= L THEN v.data[j] = FlatAt(ln, j) ELSE IsZero(v.data[j], v.dtype)

\* A dataset holding a padded record (L = 48) and a truncated one (L = 112).
C1_Witness ==
    LoaderReturned /\ \E i, j \in 1..Len(vectors) :
        /\ FlatLength(SourceLine(vectors[i])) < D
        /\ FlatLength(SourceLine(vectors[j])) > D

\* C2 as stated: for any max_samples = k the loader examines only lines among
\* the first k, and the dataset has size <= k and <= the number examined.
C2_CapBoundsDataset ==
    mode = "train" =>
        /\ \A n \in 1..examined : n <= max_samples
        /\ Len(vectors) <= max_samples
        /\ Len(vectors) <= examined

\* C2 amended: the same for k >= 0; for k < 0 nothing is examined and the
\* dataset is empty (size 0, which exceeds k).
C2_CapBoundsDatasetNonNegative ==
    mode = "train" =>
        /\ examined <= Max2(max_samples, 0)
        /\ examined <= Len(input)
        /\ Len(vectors) <= examined
        /\ \A i \in 1..Len(vectors) : vectors[i].line <= examined
        /\ max_samples >= 0 => Len(vectors) <= max_samples

\* The cap counts lines examined: k = 1, a malformed first line, a valid second
\* line, and an empty dataset.
C2_Witness ==
    /\ mode = "train"
    /\ pc = "t_check"
    /\ max_samples = 1
    /\ Len(input) = 2
    /\ input[1].kind = "invalid"
    /\ input[2].kind = "full"
    /\ examined = 1
    /\ vectors = <<>>

\* A record the specification calls well formed: a JSON object whose `vectors`
\* is a non-empty list of numeric sub-vectors of one length.
IsWellFormed(ln) ==
    /\ ln.json = "object"
    /\ ln.has_vectors
    /\ ln.ndim = 2
    /\ ln.dtype = "num"
    /\ Len(ln.val) > 0
    /\ \A a \in 1..Len(ln.val) : Len(ln.val[a]) = Len(ln.val[1])

LoaderCap == IF mode = "train" THEN max_samples ELSE STATS_MAX_LINES
ExaminedPrefix == 1..Min2(Len(input), Max2(LoaderCap, 0))

\* C3: no record that fails to parse or has a shape failure aborts the load;
\* each such record is skipped and appends nothing, and every well-formed
\* record of the examined prefix is loaded.
C3_PerRecordFailuresAreSkipped ==
    mode \in {"train", "stats"} =>
        /\ exit \notin {"AttributeError", "ValueError"}
        /\ {vectors[i].line : i \in 1..Len(vectors)}
             = {n \in ExaminedPrefix : IsWellFormed(Line(input[n]))}

\* The metadata a file holds, as json.load returns it (<<>> when the file is
\* missing or holds no JSON object).
Persisted(f) ==
    IF f.exists /\ json_load(f.content).type = "dict" THEN json_load(f.content).dict ELSE <<>>

IsStatsKey(k) == k \in {"mean_vector", "std_vector"}
OtherMembers(d) == SelectSeq(d, LAMBDA m : ~IsStatsKey(m[1]))

\* C4: when the statistics merge has persisted the metadata, the file holds
\* the members of the pre-merge file, with their values, for every key other
\* than mean_vector and std_vector, and no further key except those two.
C4_MergeLeavesOtherFieldsUnchanged ==
    (mode = "stats" /\ pc = "s_print") =>
        /\ OtherMembers(Persisted(meta_file)) = OtherMembers(Persisted(pre_meta))
        /\ DictHas(Persisted(meta_file), "mean_vector")
        /\ DictHas(Persisted(meta_file), "std_vector")

\* A merge into a file that held a member this code never writes and a
\* repeated member, with statistics of a non-empty dataset.
C4_Witness ==
    /\ mode = "stats"
    /\ pc = "s_print"
    /\ pre_meta = File(LegacyMetaText)
    /\ norm.mean.kind = "list"
    /\ DictHas(Persisted(meta_file), "notes")

\* C5: while and after the statistics run writes, the metadata file on disk
\* is the complete pre-merge content or the complete post-merge content.
C5_MergeIsAtomic ==
    mode = "stats" =>
        \/ meta_file = pre_meta
        \/ meta_file = File(json_dump(metadata))

\* C6: a training run whose dataset has fewer than 100 vectors ends with a
\* non-zero outcome without fitting a model or computing scores, and leaves the
\* model artifact and the metadata file as they were.
C6_TooFewSamplesAborts ==
    (mode = "train" /\ pc # "t_check" /\ Len(vectors) < MIN_SAMPLES) =>
        /\ pc = "done"
        /\ exit \in {"return 1", "AttributeError", "ValueError"}
        /\ ~model.fitted
        /\ stats = NoStats
        /\ meta_file = pre_meta
        /\ model_file = pre_model

\* A run refused with 99 vectors while both output files exist from an
\* earlier export.
C6_Witness ==
    /\ mode = "train"
    /\ pc = "done"
    /\ exit = "return 1"
    /\ Len(vectors) = MIN_SAMPLES - 1
    /\ meta_file.exists
    /\ model_file.exists

\* C7: a statistics run that starts without a metadata file never creates one
\* and never touches the model artifact; when it reaches the merge it ends
\* with FileNotFoundError.
C7_MergeNeedsExistingMetadata ==
    (mode = "stats" /\ ~pre_meta.exists) =>
        /\ meta_file = pre_meta
        /\ model_file = pre_model
        /\ pc \in {"s_compute", "s_read", "done"}
        /\ pc = "done" => exit \in {"FileNotFoundError", "TypeError: mean"}
        /\ (pc = "done" /\ norm.raised = "none") => exit = "FileNotFoundError"

\* A statistics run over a non-empty dataset that failed on the missing file.
C7_Witness ==
    /\ mode = "stats"
    /\ pc = "done"
    /\ exit = "FileNotFoundError"
    /\ ~meta_file.exists
    /\ Len(vectors) > 0

\* C8: once the threshold statistics are computed they satisfy
\* min <= p50 <= p90 <= p95 <= p99 <= max, and the metadata's
\* threshold_suggestion is score_stats.p95, which lies between min and max.
C8_PercentilesOrdered ==
    (mode = "train" /\ pc \in {"t_open_model", "t_dump_model", "t_open", "t_dump", "t_close", "done"} /\ model.fitted) =>
        /\ Leq(stats.min, stats.p50)
        /\ Leq(stats.p50, stats.p90)
        /\ Leq(stats.p90, stats.p95)
        /\ Leq(stats.p95, stats.p99)
        /\ Leq(stats.p99, stats.max)
        /\ DictGet(metadata, "score_stats").val = stats
        /\ DictGet(metadata, "threshold_suggestion").val = DictGet(metadata, "score_stats").val.p95
        /\ Leq(stats.min, DictGet(metadata, "threshold_suggestion").val)
        /\ Leq(DictGet(metadata, "threshold_suggestion").val, stats.max)
        /\ (pc = "done" /\ exit = "ok") =>
              DictGet(Persisted(meta_file), "threshold_suggestion").val
                = DictGet(Persisted(meta_file), "score_stats").val.p95

\* Statistics whose p95 is interpolated strictly between two different scores.
C8_Witness ==
    /\ mode = "train"
    /\ pc = "done"
    /\ exit = "ok"
    /\ stats.p95.num % stats.p95.den # 0
    /\ stats.min.num * stats.p50.den < stats.p50.num * stats.min.den
    /\ stats.p95.num * stats.max.den < stats.max.num * stats.p95.den

IsVectorOfD(v) == v.kind = "list" /\ Len(v.val) = D

\* C9: whenever the statistics merge has persisted the metadata, mean_vector
\* and std_vector are sequences of length 96 and every element of std_vector
\* is >= 0.
C9_StatsVectorsWellFormed ==
    (mode = "stats" /\ pc = "s_print") =>
        /\ IsVectorOfD(DictGet(Persisted(meta_file), "mean_vector"))
        /\ IsVectorOfD(DictGet(Persisted(meta_file), "std_vector"))
        /\ \A j \in 1..D : NonNegative(DictGet(Persisted(meta_file), "std_vector").val[j])

HasNormStats(f) ==
    /\ DictHas(Persisted(f), "mean_vector")
    /\ DictHas(Persisted(f), "std_vector")

\* C10: between runs, the metadata file holds mean_vector / std_vector
\* exactly when a statistics merge was persisted after the most recent
\* training export (or with no export at all).
C10_StatsIffMergedSinceExport ==
    pc \in {"idle", "done"} => (HasNormStats(meta_file) <=> merged)

====
